---------------------------- MODULE Spec2Model ----------------------------
(***************************************************************************)
(* A model of the two demonstration programs of the repository:            *)
(*                                                                         *)
(*   memory_example.cpp     main -> cause_leak -> use_uninitialized_memory *)
(*   profiling_example.cpp  main -> run_simulation -> intensive_computation*)
(*                                  / moderate_work / simple_task          *)
(*                                                                         *)
(* Every statement of a function is one action, guarded by the program     *)
(* counter pc.  A call transfers pc to the callee's entry and remembers    *)
(* the return position; calls whose result is dead and that touch no       *)
(* state are one call-and-return step.                                     *)
(***************************************************************************)
EXTENDS Integers, Sequences, FiniteSets, TLC

VARIABLES
    pc,            \* position of the single thread of control
    out,           \* lines written to std::cout, in order
    exitCode,      \* <<status>> once main has returned, <<>> before
    calls,         \* every function entered, with its arguments, in order
    \* memory_example.cpp
    allocs,        \* every new[] made so far, in order: address, length, cells, releases
    leaky_array,                  \* cause_leak's pointer: an index of allocs, or NoBlock
    partially_initialized_array,  \* use_uninitialized_memory's pointer
    uninitialized_value,          \* use_uninitialized_memory's stack scalar
    accesses,      \* every read and write of the scalar and of the heap cells
    \* profiling_example.cpp
    rs_i,          \* run_simulation's loop counter
    intensive_result,
    start_time, end_time,
    slept,         \* durations (ms) passed to std::this_thread::sleep_for
    ret_pc,        \* where the running callee returns to
    ic_n, ic_i, ic_sum, ic_ret,   \* intensive_computation: iterations, i, sum, returned value
    h_n, ret1, ret2,              \* two-call harness: its argument and both results
    mw_base, mw_reps, mw_i, mw_k, mw_result, mw_ret   \* moderate_work

commonVars == <<out, exitCode, calls>>
memVars == <<allocs, leaky_array, partially_initialized_array,
             uninitialized_value, accesses>>
mainVars == <<rs_i, intensive_result, start_time, end_time>>
icVars == <<slept, ret_pc, ic_n, ic_i, ic_sum, ic_ret>>
harnessVars == <<h_n, ret1, ret2>>
mwVars == <<mw_base, mw_reps, mw_i, mw_k, mw_result, mw_ret>>
vars == <<pc, commonVars, memVars, mainVars, icVars, harnessVars, mwVars>>

\* A variable holds one kind of value throughout.  A local outside its
\* lifetime keeps what its storage last held (0 before its first lifetime):
\* every action reads a local only after the action that initialises it.
NoBlock == 0           \* a pointer to no block: DOMAIN allocs starts at 1
NotReturned == <<>>    \* exitCode before main returns
NoReturn == "none"     \* ret_pc while no call is under way

\* The content of an int's storage: never written, or holding v.
Undef == [written |-> FALSE]
Stored(v) == [written |-> TRUE, val |-> v]

(***************************************************************************)
(* Bounds of the model.                                                    *)
(***************************************************************************)
NumAddrs == 3      \* operator new[] returns one of NumAddrs block addresses
MaxGarbage == 1    \* an indeterminate int reads as one of -MaxGarbage..MaxGarbage
MaxClock == 1      \* high_resolution_clock::now() returns one of 0..MaxClock
MaxN == 11         \* the harness calls intensive_computation(n), n <= MaxN
NegN == 1          \*   ... and n >= -NegN
MaxBase == 1       \* the harness calls moderate_work(base, r), base <= MaxBase
NegBase == 2       \*   ... base >= -NegBase
MaxReps == 2       \*   ... and 0 <= r <= MaxReps

(***************************************************************************)
(* Constants of the programs.                                              *)
(***************************************************************************)
LeakLen == 10              \* new int[10]
PartialLen == 5            \* new int[5]
InnerLimit == 2000         \* for (int j = 1; j < 2000; ++j)
SleepThreshold == 10       \* if (iterations < 10)
SleepFactor == 50          \* milliseconds(50 * iterations)
IntensiveIterations == 200 \* intensive_computation(200)
ModerateBatches == 50      \* for (int i = 0; i < 50; ++i)
ModerateBaseStep == 10     \* moderate_work(i * 10, ...
ModerateReps == 100        \* ..., 100)
SimpleTasks == 1000        \* for (int i = 0; i < 1000; ++i)
LogTerms == 100            \* for (int k = 0; k < 100; ++k)

Garbage == (0 - MaxGarbage)..MaxGarbage
Addrs == 1..NumAddrs
Clock == 0..MaxClock

\* The values a read of storage holding c can give: c itself, or, for
\* storage never written, any int.
Values(c) == IF c.written THEN {c.val} ELSE Garbage

(***************************************************************************)
(* The double arithmetic of intensive_computation, in integers.            *)
(*                                                                         *)
(* A term is floor(sqrt(j*i) + 1.0001^j).  With s = floor(sqrt(x)) and     *)
(* 1 < 1.0001^j < 2 for 1 <= j < 2000, the term is s + 1, plus 1 when the  *)
(* fractional part of the root and the power carry:                        *)
(*     sqrt(x) + p >= s + 2   iff   x - s^2 >= 2*s*d + d^2,  d = 2 - p.    *)
(* p and d are held in millionths (Micro).  For every i <= 200 and         *)
(* 1 <= j < 2000 the value below equals the one the IEEE-754 evaluation of *)
(* line 12 gives (compared exhaustively), and no intermediate exceeds      *)
(* 2^31.                                                                   *)
(***************************************************************************)
Micro == 1000000

\* The binary digits of floor(sqrt(x)) from the digit worth bit down:
\* root is the part found so far.
ISqrtFrom[x \in Nat, root \in Nat, bit \in Nat] ==
    IF bit = 0 THEN root
    ELSE IF (root + bit) * (root + bit) <= x
         THEN ISqrtFrom[x, root + bit, bit \div 2]
         ELSE ISqrtFrom[x, root, bit \div 2]

\* floor(sqrt(x)) for 0 <= x < 2^20
ISqrt(x) == ISqrtFrom[x, 0, 512]

\* std::pow(1.0001, j) in millionths, rounded down: (1 + 10^-4)^j by the
\* binomial series, summed in units of 10^-8 (the cubic term's binomial
\* coefficient is divided early to stay below 2^31; the terms past the
\* sixth are below one unit for j < 2000).
Pow1_0001(j) ==
    LET c2 == (j * (j - 1)) \div 2
        t3 == IF j < 3 THEN 0 ELSE ((c2 \div 100) * (j - 2)) \div 300
        t4 == IF j < 4 THEN 0 ELSE (t3 * (j - 3)) \div 40000
        t5 == IF j < 5 THEN 0 ELSE (t4 * (j - 4)) \div 50000
        t6 == IF j < 6 THEN 0 ELSE (t5 * (j - 5)) \div 60000
    IN  (100000000 + 10000 * j + c2 + t3 + t4 + t5 + t6) \div 100

\* floor(sqrt(x) + p) from s = floor(sqrt(x)) and d = 2 - p in millionths;
\* d^2 is taken in millionths from d's upper and lower three digits.
Truncated[x \in Nat, s \in Nat, d \in Nat] ==
    IF (x - s * s) * Micro >=
          2 * s * d + (d \div 1000) * (d \div 1000)
                    + (2 * (d \div 1000) * (d % 1000)) \div 1000
    THEN s + 2
    ELSE s + 1

\* static_cast<long long>(std::sqrt(static_cast<double>(j) * i) + std::pow(1.0001, j))
Term(i, j) == Truncated[j * i, ISqrt(j * i), 2 * Micro - Pow1_0001(j)]

\* The terms the inner loop adds for lo <= j < hi.  The additions are of
\* 64-bit integers far below overflow, hence associative: the range is
\* summed by halves, which keeps the evaluation shallow.
InnerSum[i \in Nat, lo \in Nat, hi \in Nat] ==
    IF hi <= lo THEN 0
    ELSE IF hi = lo + 1 THEN Term(i, lo)
    ELSE InnerSum[i, lo, (lo + hi) \div 2] + InnerSum[i, (lo + hi) \div 2, hi]

\* for (int j = 1; j < 2000; ++j) sum += Term(i, j);
InnerLoop(i, sum) == sum + InnerSum[i, 1, InnerLimit]

(***************************************************************************)
(* intensive_computation(iterations)                                       *)
(***************************************************************************)
\* The entry with sum in static storage: static long long sum = 0; is
\* initialised by the first call only.
IC_Entry_StaticSum ==
    /\ pc = "ic_entry"
    /\ ic_sum' = IF \E k \in DOMAIN calls : calls[k][1] = "intensive_computation"
                 THEN ic_sum ELSE 0
    /\ ic_i' = 0
    /\ calls' = Append(calls, <<"intensive_computation", ic_n>>)
    /\ pc' = "ic_outer"
    /\ UNCHANGED <<out, exitCode, slept, ret_pc, ic_n, ic_ret>>
    /\ UNCHANGED <<memVars, mainVars, harnessVars, mwVars>>

\* long long sum = 0;  and the for-initialiser int i = 0
IC_Entry ==
    /\ pc = "ic_entry"
    /\ ic_sum' = 0
    /\ ic_i' = 0
    /\ calls' = Append(calls, <<"intensive_computation", ic_n>>)
    /\ pc' = "ic_outer"
    /\ UNCHANGED <<out, exitCode, slept, ret_pc, ic_n, ic_ret>>
    /\ UNCHANGED <<memVars, mainVars, harnessVars, mwVars>>

\* One pass of the outer loop: the whole inner loop, then ++i.
IC_Outer ==
    /\ pc = "ic_outer"
    /\ ic_i < ic_n
    /\ ic_sum' = InnerLoop(ic_i, ic_sum)
    /\ ic_i' = ic_i + 1
    /\ UNCHANGED <<pc, commonVars, slept, ret_pc, ic_n, ic_ret>>
    /\ UNCHANGED <<memVars, mainVars, harnessVars, mwVars>>

\* The outer loop's condition fails.
IC_OuterExit ==
    /\ pc = "ic_outer"
    /\ ~(ic_i < ic_n)
    /\ pc' = "ic_sleep"
    /\ UNCHANGED <<commonVars, memVars, mainVars, icVars, harnessVars, mwVars>>

\* if (iterations < 10) sleep_for(milliseconds(50 * iterations));
IC_Sleep ==
    /\ pc = "ic_sleep"
    /\ slept' = IF ic_n < SleepThreshold
                THEN Append(slept, SleepFactor * ic_n)
                ELSE slept
    /\ pc' = "ic_return"
    /\ UNCHANGED <<ret_pc, ic_n, ic_i, ic_sum, ic_ret>>
    /\ UNCHANGED <<commonVars, memVars, mainVars, harnessVars, mwVars>>

\* return sum;
IC_Return ==
    /\ pc = "ic_return"
    /\ ic_ret' = ic_sum
    /\ pc' = ret_pc
    /\ UNCHANGED <<slept, ret_pc, ic_n, ic_i, ic_sum>>
    /\ UNCHANGED <<commonVars, memVars, mainVars, harnessVars, mwVars>>

IntensiveComputation ==
    IC_Entry \/ IC_Outer \/ IC_OuterExit \/ IC_Sleep \/ IC_Return

(***************************************************************************)
(* A harness that calls intensive_computation twice with the same n.       *)
(***************************************************************************)
HarnessInputs == ((0 - NegN)..MaxN) \cup {IntensiveIterations}

H_Call1 ==
    /\ pc = "h_call1"
    /\ ic_n' = h_n
    /\ ret_pc' = "h_ret1"
    /\ pc' = "ic_entry"
    /\ UNCHANGED <<slept, ic_i, ic_sum, ic_ret>>
    /\ UNCHANGED <<commonVars, memVars, mainVars, harnessVars, mwVars>>

H_Ret1 ==
    /\ pc = "h_ret1"
    /\ ret1' = ic_ret
    /\ pc' = "h_call2"
    /\ UNCHANGED <<h_n, ret2>>
    /\ UNCHANGED <<commonVars, memVars, mainVars, icVars, mwVars>>

H_Call2 ==
    /\ pc = "h_call2"
    /\ ic_n' = h_n
    /\ ret_pc' = "h_ret2"
    /\ pc' = "ic_entry"
    /\ UNCHANGED <<slept, ic_i, ic_sum, ic_ret>>
    /\ UNCHANGED <<commonVars, memVars, mainVars, harnessVars, mwVars>>

H_Ret2 ==
    /\ pc = "h_ret2"
    /\ ret2' = ic_ret
    /\ pc' = "h_done"
    /\ UNCHANGED <<h_n, ret1>>
    /\ UNCHANGED <<commonVars, memVars, mainVars, icVars, mwVars>>

(***************************************************************************)
(* memory_example.cpp                                                      *)
(***************************************************************************)
\* The block addresses operator new[] may return: those of no live block.
LiveAddrs == {allocs[b].addr : b \in {c \in DOMAIN allocs : allocs[c].freed = 0}}
FreeAddrs == Addrs \ LiveAddrs

\* A fresh block of len ints, none of them written.
NewBlock(a, len, fn) ==
    [addr |-> a, len |-> len, by |-> fn, freed |-> 0,
     cells |-> [k \in 0..(len - 1) |-> Undef]]

\* One entry of the access log: op on cell idx of block (an index of allocs;
\* 0 for the stack scalar), whether the cell had been written before (init),
\* whether the block had been released before (released), the value moved.
Access(op, block, idx, content, val) ==
    [op |-> op, block |-> block, idx |-> idx, init |-> content.written,
     released |-> IF block \in DOMAIN allocs THEN allocs[block].freed > 0 ELSE FALSE,
     val |-> val]

StartBanner == <<"Starting memory_example program.">>
LeakReport(a) == <<"Leaky function called. Memory allocated at: ", a>>
PositiveMessage == <<"Uninitialized value is positive.">>
NotPositiveMessage == <<"Uninitialized value is not positive (or garbage).">>
ValueReport(v) == <<"Value at index 1: ", v, " (potentially uninitialized)">>
FinishBanner == <<"memory_example program finished.">>

\* std::cout << "Starting memory_example program." << std::endl;
M_Start ==
    /\ pc = "m_start"
    /\ out' = Append(out, StartBanner)
    /\ pc' = "m_call_leak"
    /\ UNCHANGED <<exitCode, calls, memVars, mainVars, icVars, harnessVars, mwVars>>

\* cause_leak();
M_CallLeak ==
    /\ pc = "m_call_leak"
    /\ calls' = Append(calls, <<"cause_leak">>)
    /\ pc' = "cl_new"
    /\ UNCHANGED <<out, exitCode, memVars, mainVars, icVars, harnessVars, mwVars>>

\* int* leaky_array = new int[10];
CL_New ==
    /\ pc = "cl_new"
    /\ \E a \in FreeAddrs :
          allocs' = Append(allocs, NewBlock(a, LeakLen, "cause_leak"))
    /\ leaky_array' = Len(allocs) + 1
    /\ pc' = "cl_write"
    /\ UNCHANGED <<partially_initialized_array, uninitialized_value, accesses>>
    /\ UNCHANGED <<commonVars, mainVars, icVars, harnessVars, mwVars>>

\* leaky_array[0] = 1;
CL_Write ==
    /\ pc = "cl_write"
    /\ accesses' = Append(accesses,
          Access("write", leaky_array, 0, allocs[leaky_array].cells[0], 1))
    /\ allocs' = [allocs EXCEPT ![leaky_array].cells[0] = Stored(1)]
    /\ pc' = "cl_print"
    /\ UNCHANGED <<leaky_array, partially_initialized_array, uninitialized_value>>
    /\ UNCHANGED <<commonVars, mainVars, icVars, harnessVars, mwVars>>

\* std::cout << "Leaky function called. Memory allocated at: " << leaky_array << std::endl;
CL_Print ==
    /\ pc = "cl_print"
    /\ out' = Append(out, LeakReport(allocs[leaky_array].addr))
    /\ pc' = "cl_return"
    /\ UNCHANGED <<exitCode, calls, memVars, mainVars, icVars, harnessVars, mwVars>>

\* cause_leak as it would be with the missing statement present:
\* delete[] leaky_array; before the closing brace.
CL_Return_Releasing ==
    /\ pc = "cl_return"
    /\ allocs' = [allocs EXCEPT ![leaky_array].freed = @ + 1]
    /\ leaky_array' = NoBlock
    /\ pc' = "m_call_uum"
    /\ UNCHANGED <<partially_initialized_array, uninitialized_value, accesses>>
    /\ UNCHANGED <<commonVars, mainVars, icVars, harnessVars, mwVars>>

\* } of cause_leak: the pointer goes out of scope, the block is not released.
CL_Return ==
    /\ pc = "cl_return"
    /\ leaky_array' = NoBlock
    /\ pc' = "m_call_uum"
    /\ UNCHANGED <<allocs, partially_initialized_array, uninitialized_value, accesses>>
    /\ UNCHANGED <<commonVars, mainVars, icVars, harnessVars, mwVars>>

\* use_uninitialized_memory();
M_CallUUM ==
    /\ pc = "m_call_uum"
    /\ calls' = Append(calls, <<"use_uninitialized_memory">>)
    /\ pc' = "uum_declare"
    /\ UNCHANGED <<out, exitCode, memVars, mainVars, icVars, harnessVars, mwVars>>

\* The declaration with an initialiser: int uninitialized_value = 0;
UUM_Declare_Initialized ==
    /\ pc = "uum_declare"
    /\ uninitialized_value' = Stored(0)
    /\ pc' = "uum_branch"
    /\ UNCHANGED <<allocs, leaky_array, partially_initialized_array, accesses>>
    /\ UNCHANGED <<commonVars, mainVars, icVars, harnessVars, mwVars>>

\* int uninitialized_value;
UUM_Declare ==
    /\ pc = "uum_declare"
    /\ uninitialized_value' = Undef
    /\ pc' = "uum_branch"
    /\ UNCHANGED <<allocs, leaky_array, partially_initialized_array, accesses>>
    /\ UNCHANGED <<commonVars, mainVars, icVars, harnessVars, mwVars>>

\* The branch without its else: the second message is printed in any case.
UUM_Branch_NoElse ==
    /\ pc = "uum_branch"
    /\ \E v \in Values(uninitialized_value) :
          /\ accesses' = Append(accesses,
                Access("read", 0, 0, uninitialized_value, v))
          /\ out' = out \o (IF v > 0 THEN <<PositiveMessage>> ELSE <<>>)
                        \o <<NotPositiveMessage>>
    /\ pc' = "uum_new"
    /\ UNCHANGED <<allocs, leaky_array, partially_initialized_array, uninitialized_value>>
    /\ UNCHANGED <<exitCode, calls, mainVars, icVars, harnessVars, mwVars>>

\* if (uninitialized_value > 0) { std::cout << ... } else { std::cout << ... }
UUM_Branch ==
    /\ pc = "uum_branch"
    /\ \E v \in Values(uninitialized_value) :
          /\ accesses' = Append(accesses,
                Access("read", 0, 0, uninitialized_value, v))
          /\ out' = Append(out, IF v > 0 THEN PositiveMessage
                                ELSE NotPositiveMessage)
    /\ pc' = "uum_new"
    /\ UNCHANGED <<allocs, leaky_array, partially_initialized_array, uninitialized_value>>
    /\ UNCHANGED <<exitCode, calls, mainVars, icVars, harnessVars, mwVars>>

\* int* partially_initialized_array = new int[5];
UUM_New ==
    /\ pc = "uum_new"
    /\ \E a \in FreeAddrs :
          allocs' = Append(allocs, NewBlock(a, PartialLen, "use_uninitialized_memory"))
    /\ partially_initialized_array' = Len(allocs) + 1
    /\ pc' = "uum_write"
    /\ UNCHANGED <<leaky_array, uninitialized_value, accesses>>
    /\ UNCHANGED <<commonVars, mainVars, icVars, harnessVars, mwVars>>

\* partially_initialized_array[0] = 100;
UUM_Write ==
    /\ pc = "uum_write"
    /\ accesses' = Append(accesses,
          Access("write", partially_initialized_array, 0,
                 allocs[partially_initialized_array].cells[0], 100))
    /\ allocs' = [allocs EXCEPT ![partially_initialized_array].cells[0] = Stored(100)]
    /\ pc' = "uum_print"
    /\ UNCHANGED <<leaky_array, partially_initialized_array, uninitialized_value>>
    /\ UNCHANGED <<commonVars, mainVars, icVars, harnessVars, mwVars>>

\* std::cout << "Value at index 1: " << partially_initialized_array[1] << ...
UUM_Print ==
    /\ pc = "uum_print"
    /\ \E v \in Values(allocs[partially_initialized_array].cells[1]) :
          /\ accesses' = Append(accesses,
                Access("read", partially_initialized_array, 1,
                       allocs[partially_initialized_array].cells[1], v))
          /\ out' = Append(out, ValueReport(v))
    /\ pc' = "uum_delete"
    /\ UNCHANGED <<allocs, leaky_array, partially_initialized_array, uninitialized_value>>
    /\ UNCHANGED <<exitCode, calls, mainVars, icVars, harnessVars, mwVars>>

\* use_uninitialized_memory without its delete[].
UUM_Delete_Missing ==
    /\ pc = "uum_delete"
    /\ pc' = "uum_return"
    /\ UNCHANGED <<commonVars, memVars, mainVars, icVars, harnessVars, mwVars>>

\* delete[] partially_initialized_array;
UUM_Delete ==
    /\ pc = "uum_delete"
    /\ allocs' = [allocs EXCEPT ![partially_initialized_array].freed = @ + 1]
    /\ pc' = "uum_return"
    /\ UNCHANGED <<leaky_array, partially_initialized_array, uninitialized_value, accesses>>
    /\ UNCHANGED <<commonVars, mainVars, icVars, harnessVars, mwVars>>

\* } of use_uninitialized_memory
UUM_Return ==
    /\ pc = "uum_return"
    /\ partially_initialized_array' = NoBlock
    /\ pc' = "m_finish"
    /\ UNCHANGED <<allocs, leaky_array, uninitialized_value, accesses>>
    /\ UNCHANGED <<commonVars, mainVars, icVars, harnessVars, mwVars>>

\* std::cout << "memory_example program finished." << std::endl;
M_Finish ==
    /\ pc = "m_finish"
    /\ out' = Append(out, FinishBanner)
    /\ pc' = "m_return"
    /\ UNCHANGED <<exitCode, calls, memVars, mainVars, icVars, harnessVars, mwVars>>

\* main returning a status that depends on the branch taken.
M_Return_ByOutcome ==
    /\ pc = "m_return"
    /\ exitCode' = IF \E k \in DOMAIN out : out[k] = PositiveMessage THEN <<1>> ELSE <<0>>
    /\ pc' = "exited"
    /\ UNCHANGED <<out, calls, memVars, mainVars, icVars, harnessVars, mwVars>>

\* return 0;
M_Return ==
    /\ pc = "m_return"
    /\ exitCode' = <<0>>
    /\ pc' = "exited"
    /\ UNCHANGED <<out, calls, memVars, mainVars, icVars, harnessVars, mwVars>>

(***************************************************************************)
(* moderate_work(base, repetitions)                                        *)
(*                                                                         *)
(* The double result is held as the list of the terms added, in order, to  *)
(* its initial 0.0: <<"sin*cos", a, b>> for sin(a) * cos(b) and            *)
(* <<"log", a>> for log(a).  The empty list is 0.0 itself.                 *)
(***************************************************************************)
Zero == <<>>

\* double result = 0.0;  and the for-initialiser int i = 0
MW_Entry ==
    /\ pc = "mw_entry"
    /\ calls' = Append(calls, <<"moderate_work", mw_base, mw_reps>>)
    /\ mw_result' = Zero
    /\ mw_i' = 0
    /\ pc' = "mw_outer"
    /\ UNCHANGED <<mw_base, mw_reps, mw_k, mw_ret>>
    /\ UNCHANGED <<out, exitCode, memVars, mainVars, icVars, harnessVars>>

\* The outer loop's condition with <= for <.
MW_OuterCond_Inclusive == mw_i <= mw_reps

\* i < repetitions
MW_OuterCond == mw_i < mw_reps

\* result += std::sin(base + i) * std::cos(base - i);  and int k = 0
MW_SinCos ==
    /\ pc = "mw_outer"
    /\ MW_OuterCond
    /\ mw_result' = Append(mw_result, <<"sin*cos", mw_base + mw_i, mw_base - mw_i>>)
    /\ mw_k' = 0
    /\ pc' = "mw_inner"
    /\ UNCHANGED <<mw_base, mw_reps, mw_i, mw_ret>>
    /\ UNCHANGED <<commonVars, memVars, mainVars, icVars, harnessVars>>

\* One pass of the inner loop: result += std::log(k + base + 1);  ++k
MW_Log ==
    /\ pc = "mw_inner"
    /\ mw_k < LogTerms
    /\ mw_result' = Append(mw_result, <<"log", mw_k + mw_base + 1>>)
    /\ mw_k' = mw_k + 1
    /\ UNCHANGED <<pc, mw_base, mw_reps, mw_i, mw_ret>>
    /\ UNCHANGED <<commonVars, memVars, mainVars, icVars, harnessVars>>

\* The inner loop's condition fails: ++i of the outer loop.
MW_InnerExit ==
    /\ pc = "mw_inner"
    /\ ~(mw_k < LogTerms)
    /\ mw_i' = mw_i + 1
    /\ pc' = "mw_outer"
    /\ UNCHANGED <<mw_base, mw_reps, mw_k, mw_result, mw_ret>>
    /\ UNCHANGED <<commonVars, memVars, mainVars, icVars, harnessVars>>

\* The outer loop's condition fails: return result;
MW_Return ==
    /\ pc = "mw_outer"
    /\ ~MW_OuterCond
    /\ mw_ret' = mw_result
    /\ pc' = "mw_done"
    /\ UNCHANGED <<mw_base, mw_reps, mw_i, mw_k, mw_result>>
    /\ UNCHANGED <<commonVars, memVars, mainVars, icVars, harnessVars>>

ModerateWork == MW_Entry \/ MW_SinCos \/ MW_Log \/ MW_InnerExit \/ MW_Return

(***************************************************************************)
(* simple_task, run_simulation and main of profiling_example.cpp           *)
(***************************************************************************)
IntensiveStart == <<"Starting intensive computation...">>
IntensiveFinish(r) == <<"Intensive computation finished. Result: ", r>>
ModerateStart == <<"Starting moderate work series...">>
ModerateFinish == <<"Moderate work finished.">>
SimpleStart == <<"Starting simple tasks...">>
SimpleFinish == <<"Simple tasks finished.">>
TotalTime(ms) == <<"Total execution time: ", ms, " ms">>

\* simple_task with the statement of line 39 in force.
simple_task_Printing(id) ==
    IF id % 100 = 0 THEN << <<"Simple task ", id, " processed, result: ">> >>
    ELSE <<>>

\* The lines simple_task(id) writes: val is computed and dropped, and the
\* body of  if (id % 100 == 0)  is a comment.
simple_task(id) == <<>>

\* The lines run_simulation writes after batch i of moderate_work: the body
\* of  if (i % 10 == 0)  is a comment.
ModerateBatchOutput(i) == <<>>

\* auto start_time = std::chrono::high_resolution_clock::now();
PM_StartTime ==
    /\ pc = "pm_start_time"
    /\ start_time' \in Clock
    /\ pc' = "pm_call_run"
    /\ UNCHANGED <<rs_i, intensive_result, end_time>>
    /\ UNCHANGED <<commonVars, memVars, icVars, harnessVars, mwVars>>

\* run_simulation();
PM_CallRun ==
    /\ pc = "pm_call_run"
    /\ calls' = Append(calls, <<"run_simulation">>)
    /\ pc' = "rs_intensive_start"
    /\ UNCHANGED <<out, exitCode, memVars, mainVars, icVars, harnessVars, mwVars>>

\* run_simulation with a banner of its own ahead of the first tier's.
RS_IntensiveStart_AfterBanner ==
    /\ pc = "rs_intensive_start"
    /\ out' = out \o << <<"Starting simulation...">>, IntensiveStart >>
    /\ pc' = "rs_call_intensive"
    /\ UNCHANGED <<exitCode, calls, memVars, mainVars, icVars, harnessVars, mwVars>>

\* std::cout << "Starting intensive computation..." << std::endl;
RS_IntensiveStart ==
    /\ pc = "rs_intensive_start"
    /\ out' = Append(out, IntensiveStart)
    /\ pc' = "rs_call_intensive"
    /\ UNCHANGED <<exitCode, calls, memVars, mainVars, icVars, harnessVars, mwVars>>

\* intensive_computation(200): the call
RS_CallIntensive ==
    /\ pc = "rs_call_intensive"
    /\ ic_n' = IntensiveIterations
    /\ ret_pc' = "rs_ret_intensive"
    /\ pc' = "ic_entry"
    /\ UNCHANGED <<slept, ic_i, ic_sum, ic_ret>>
    /\ UNCHANGED <<commonVars, memVars, mainVars, harnessVars, mwVars>>

\* long long intensive_result = <the value returned>;
RS_RetIntensive ==
    /\ pc = "rs_ret_intensive"
    /\ intensive_result' = ic_ret
    /\ pc' = "rs_intensive_finish"
    /\ UNCHANGED <<rs_i, start_time, end_time>>
    /\ UNCHANGED <<commonVars, memVars, icVars, harnessVars, mwVars>>

\* std::cout << "Intensive computation finished. Result: " << intensive_result << std::endl;
RS_IntensiveFinish ==
    /\ pc = "rs_intensive_finish"
    /\ out' = Append(out, IntensiveFinish(intensive_result))
    /\ pc' = "rs_moderate_start"
    /\ UNCHANGED <<exitCode, calls, memVars, mainVars, icVars, harnessVars, mwVars>>

\* std::cout << "Starting moderate work series..." << std::endl;  and int i = 0
RS_ModerateStart ==
    /\ pc = "rs_moderate_start"
    /\ out' = Append(out, ModerateStart)
    /\ rs_i' = 0
    /\ pc' = "rs_moderate_loop"
    /\ UNCHANGED <<intensive_result, start_time, end_time>>
    /\ UNCHANGED <<exitCode, calls, memVars, icVars, harnessVars, mwVars>>

\* The moderate loop passing i for i * 10.
RS_ModerateCall_Unscaled ==
    /\ pc = "rs_moderate_loop"
    /\ rs_i < ModerateBatches
    /\ calls' = Append(calls, <<"moderate_work", rs_i, ModerateReps>>)
    /\ out' = out \o ModerateBatchOutput(rs_i)
    /\ rs_i' = rs_i + 1
    /\ UNCHANGED <<pc, exitCode, intensive_result, start_time, end_time>>
    /\ UNCHANGED <<memVars, icVars, harnessVars, mwVars>>

\* One pass of the moderate loop: double mod_res = moderate_work(i * 10, 100);
\* the empty if; ++i.  The callee touches nothing outside its own frame
\* and mod_res is never read, so call and return are one step.
RS_ModerateCall ==
    /\ pc = "rs_moderate_loop"
    /\ rs_i < ModerateBatches
    /\ calls' = Append(calls, <<"moderate_work", rs_i * ModerateBaseStep, ModerateReps>>)
    /\ out' = out \o ModerateBatchOutput(rs_i)
    /\ rs_i' = rs_i + 1
    /\ UNCHANGED <<pc, exitCode, intensive_result, start_time, end_time>>
    /\ UNCHANGED <<memVars, icVars, harnessVars, mwVars>>

\* The moderate loop's condition fails;
\* std::cout << "Moderate work finished." << std::endl;
RS_ModerateFinish ==
    /\ pc = "rs_moderate_loop"
    /\ ~(rs_i < ModerateBatches)
    /\ out' = Append(out, ModerateFinish)
    /\ pc' = "rs_simple_start"
    /\ UNCHANGED <<exitCode, calls, memVars, mainVars, icVars, harnessVars, mwVars>>

\* std::cout << "Starting simple tasks..." << std::endl;  and int i = 0
RS_SimpleStart ==
    /\ pc = "rs_simple_start"
    /\ out' = Append(out, SimpleStart)
    /\ rs_i' = 0
    /\ pc' = "rs_simple_loop"
    /\ UNCHANGED <<intensive_result, start_time, end_time>>
    /\ UNCHANGED <<exitCode, calls, memVars, icVars, harnessVars, mwVars>>

\* One pass of the simple loop: simple_task(i); ++i
RS_SimpleCall ==
    /\ pc = "rs_simple_loop"
    /\ rs_i < SimpleTasks
    /\ calls' = Append(calls, <<"simple_task", rs_i>>)
    /\ out' = out \o simple_task(rs_i)
    /\ rs_i' = rs_i + 1
    /\ UNCHANGED <<pc, exitCode, intensive_result, start_time, end_time>>
    /\ UNCHANGED <<memVars, icVars, harnessVars, mwVars>>

\* The simple loop's condition fails;
\* std::cout << "Simple tasks finished." << std::endl;
RS_SimpleFinish ==
    /\ pc = "rs_simple_loop"
    /\ ~(rs_i < SimpleTasks)
    /\ out' = Append(out, SimpleFinish)
    /\ pc' = "rs_return"
    /\ UNCHANGED <<exitCode, calls, memVars, mainVars, icVars, harnessVars, mwVars>>

\* } of run_simulation
RS_Return ==
    /\ pc = "rs_return"
    /\ pc' = "pm_end_time"
    /\ UNCHANGED <<commonVars, memVars, mainVars, icVars, harnessVars, mwVars>>

RunSimulation ==
    \/ RS_IntensiveStart \/ RS_CallIntensive \/ RS_RetIntensive
    \/ RS_IntensiveFinish
    \/ RS_ModerateStart \/ RS_ModerateCall \/ RS_ModerateFinish
    \/ RS_SimpleStart \/ RS_SimpleCall \/ RS_SimpleFinish
    \/ RS_Return

\* auto end_time = std::chrono::high_resolution_clock::now();
\* (the clock is the system's: nothing orders it after start_time)
PM_EndTime ==
    /\ pc = "pm_end_time"
    /\ end_time' \in Clock
    /\ pc' = "pm_print"
    /\ UNCHANGED <<rs_i, intensive_result, start_time>>
    /\ UNCHANGED <<commonVars, memVars, icVars, harnessVars, mwVars>>

\* duration_cast<milliseconds>(end_time - start_time);
\* std::cout << "Total execution time: " << duration.count() << " ms" << std::endl;
PM_PrintDuration ==
    /\ pc = "pm_print"
    /\ out' = Append(out, TotalTime(end_time - start_time))
    /\ pc' = "pm_return"
    /\ UNCHANGED <<exitCode, calls, memVars, mainVars, icVars, harnessVars, mwVars>>

\* return 0;
PM_Return ==
    /\ pc = "pm_return"
    /\ exitCode' = <<0>>
    /\ pc' = "exited"
    /\ UNCHANGED <<out, calls, memVars, mainVars, icVars, harnessVars, mwVars>>

(***************************************************************************)
(* Initial states and specifications.                                      *)
(***************************************************************************)
CommonInit == out = <<>> /\ exitCode = NotReturned /\ calls = <<>>

MemIdle ==
    /\ allocs = <<>>
    /\ leaky_array = NoBlock
    /\ partially_initialized_array = NoBlock
    /\ uninitialized_value = Undef
    /\ accesses = <<>>

MainIdle ==
    /\ rs_i = 0 /\ intensive_result = 0
    /\ start_time = 0 /\ end_time = 0

ICIdle ==
    /\ slept = <<>>
    /\ ret_pc = NoReturn
    /\ ic_n = 0 /\ ic_i = 0 /\ ic_sum = 0 /\ ic_ret = 0

HarnessIdle == h_n = 0 /\ ret1 = 0 /\ ret2 = 0

MWIdle ==
    /\ mw_base = 0 /\ mw_reps = 0 /\ mw_i = 0
    /\ mw_k = 0 /\ mw_result = Zero /\ mw_ret = Zero

\* memory_example: the process at the entry of main.
InitMem ==
    /\ pc = "m_start"
    /\ CommonInit /\ MemIdle /\ MainIdle /\ ICIdle /\ HarnessIdle /\ MWIdle

NextMem ==
    \/ M_Start \/ M_CallLeak
    \/ CL_New \/ CL_Write \/ CL_Print \/ CL_Return
    \/ M_CallUUM
    \/ UUM_Declare \/ UUM_Branch \/ UUM_New \/ UUM_Write \/ UUM_Print
    \/ UUM_Delete \/ UUM_Return
    \/ M_Finish \/ M_Return

SpecMem == InitMem /\ [][NextMem]_vars

\* The single thread runs on until main returns.
LiveSpecMem == SpecMem /\ WF_vars(NextMem)

\* intensive_computation called twice with one argument.
InitIC ==
    /\ pc = "h_call1"
    /\ CommonInit /\ MemIdle /\ MainIdle /\ ICIdle /\ MWIdle
    /\ h_n \in HarnessInputs
    /\ ret1 = 0 /\ ret2 = 0

NextIC == IntensiveComputation \/ H_Call1 \/ H_Ret1 \/ H_Call2 \/ H_Ret2

SpecIC == InitIC /\ [][NextIC]_vars

\* profiling_example: the process at the entry of main.
InitProf ==
    /\ pc = "pm_start_time"
    /\ CommonInit /\ MemIdle /\ MainIdle /\ ICIdle /\ HarnessIdle /\ MWIdle

NextProf ==
    \/ PM_StartTime \/ PM_CallRun
    \/ RunSimulation
    \/ IntensiveComputation
    \/ PM_EndTime \/ PM_PrintDuration \/ PM_Return

SpecProf == InitProf /\ [][NextProf]_vars

\* moderate_work entered with its two arguments bound.
InitMW ==
    /\ pc = "mw_entry"
    /\ CommonInit /\ MemIdle /\ MainIdle /\ ICIdle /\ HarnessIdle
    /\ mw_base \in (0 - NegBase)..MaxBase
    /\ mw_reps \in 0..MaxReps
    /\ mw_i = 0 /\ mw_k = 0
    /\ mw_result = Zero /\ mw_ret = Zero

NextMW == ModerateWork

SpecMW == InitMW /\ [][NextMW]_vars

(***************************************************************************)
(* Properties of memory_example.                                           *)
(***************************************************************************)
BlocksOf(fn) == {b \in DOMAIN allocs : allocs[b].by = fn}
Unreleased == {b \in DOMAIN allocs : allocs[b].freed = 0}
Partial == BlocksOf("use_uninitialized_memory")
AccessesOf(blocks) == {k \in DOMAIN accesses : accesses[k].block \in blocks}
AfterUUM == pc \in {"m_finish", "m_return", "exited"}

\* C1: a run makes two heap allocations in all; the 10-int block of
\* cause_leak is never released, and when main has returned it is the only
\* block still unreleased.
C1_OneOfTwoBlocksLeaked ==
    /\ Len(allocs) <= 2
    /\ Cardinality(BlocksOf("cause_leak")) <= 1
    /\ \A b \in BlocksOf("cause_leak") :
          allocs[b].len = LeakLen /\ allocs[b].freed = 0
    /\ pc = "exited" =>
          /\ Len(allocs) = 2
          /\ Cardinality(Unreleased) = 1
          /\ Unreleased = BlocksOf("cause_leak")

C1_Witness ==
    /\ pc = "exited"
    /\ Len(allocs) = 2
    /\ \E b \in DOMAIN allocs : allocs[b].freed = 1
    /\ \E b \in DOMAIN allocs : allocs[b].len = LeakLen /\ allocs[b].freed = 0

\* C2: use_uninitialized_memory makes one allocation, of 5 ints; its index 0
\* holds 100 from the write until the release; it is released exactly once
\* before the function returns, whichever branch was taken; no access to it
\* follows its release.
C2_PartialBlockReleasedOnce ==
    /\ Cardinality(Partial) <= 1
    /\ \A b \in Partial : allocs[b].len = PartialLen /\ allocs[b].freed <= 1
    /\ pc \in {"uum_print", "uum_delete"} =>
          /\ Partial # {}
          /\ \A b \in Partial :
                allocs[b].cells[0] = Stored(100) /\ allocs[b].freed = 0
    /\ (pc = "uum_return" \/ AfterUUM) =>
          /\ Cardinality(Partial) = 1
          /\ \A b \in Partial : allocs[b].freed = 1
    /\ \A k \in AccessesOf(Partial) : ~accesses[k].released

C2_Witness ==
    /\ pc = "m_finish"
    /\ \E k \in DOMAIN out : out[k] = PositiveMessage
    /\ \E b \in Partial : allocs[b].freed = 1 /\ allocs[b].cells[0] = Stored(100)

\* C3: the scalar is never written and is read once, by the comparison;
\* index 1 of the 5-int block is read once, never having been written, and
\* the value read is the one printed; index 0 is the only cell of the block
\* ever written; indices 2 to 4 are neither read nor written.
C3_UninitializedReads ==
    /\ \A k \in AccessesOf({0}) :
          accesses[k].op = "read" /\ ~accesses[k].init
    /\ \A k \in AccessesOf(Partial) :
          /\ accesses[k].op = "write" => accesses[k].idx = 0
          /\ accesses[k].op = "read" => accesses[k].idx = 1 /\ ~accesses[k].init
    /\ \A b \in Partial : \A c \in 1..(PartialLen - 1) : ~allocs[b].cells[c].written
    /\ pc \in {"uum_new", "uum_write", "uum_print", "uum_delete", "uum_return"}
         \/ AfterUUM
         => Cardinality(AccessesOf({0})) = 1
    /\ pc \in {"uum_delete", "uum_return"} \/ AfterUUM =>
          \E k \in AccessesOf(Partial) :
             /\ accesses[k].op = "read"
             /\ out[4] = ValueReport(accesses[k].val)
             /\ \A m \in AccessesOf(Partial) :
                   accesses[m].op = "read" => m = k

C3_Witness ==
    /\ pc = "exited"
    /\ \E k \in AccessesOf({0}) : accesses[k].op = "read" /\ ~accesses[k].init
    /\ \E k \in AccessesOf(Partial) :
          accesses[k].op = "read" /\ accesses[k].idx = 1 /\ ~accesses[k].init

\* C4: whatever the two indeterminate reads give, the program reaches the
\* end of main and stays there with exit code 0.
C4_TerminatesWithZero == <>[](pc = "exited" /\ exitCode = <<0>>)

C4_Witness ==
    /\ pc = "exited" /\ exitCode = <<0>>
    /\ \E k \in AccessesOf({0}) : accesses[k].val > 0
    /\ \E k \in AccessesOf(Partial) : accesses[k].op = "read" /\ accesses[k].val < 0

\* C5: the output is, in this order, the start banner, the leak report with
\* the block's address, one of the two branch messages, the report of
\* index 1, the finish banner: five lines when main has returned, and at
\* any earlier time a prefix of them.
LineKind(line) ==
    IF line[1] = StartBanner[1] THEN "start"
    ELSE IF line[1] = LeakReport(0)[1] THEN "leak"
    ELSE IF line[1] \in {PositiveMessage[1], NotPositiveMessage[1]} THEN "branch"
    ELSE IF line[1] = ValueReport(0)[1] THEN "value"
    ELSE IF line[1] = FinishBanner[1] THEN "finish"
    ELSE "other"

MemLineOrder == <<"start", "leak", "branch", "value", "finish">>

C5_FiveLinesInOrder ==
    /\ Len(out) <= Len(MemLineOrder)
    /\ \A k \in DOMAIN out : LineKind(out[k]) = MemLineOrder[k]
    /\ Len(out) >= 2 => \E b \in BlocksOf("cause_leak") :
                           out[2] = LeakReport(allocs[b].addr)
    /\ pc = "exited" => Len(out) = Len(MemLineOrder)

C5_Witness ==
    /\ pc = "exited"
    /\ Len(out) = 5
    /\ out[3] = PositiveMessage

(***************************************************************************)
(* Properties of profiling_example.                                        *)
(***************************************************************************)
TotalCalls == 2 + ModerateBatches + SimpleTasks
AfterRunSimulation == pc \in {"rs_return", "pm_end_time", "pm_print", "pm_return", "exited"}

\* The k-th function entered by the program: run_simulation, then
\* intensive_computation(200), moderate_work(0, 100) .. moderate_work(490, 100),
\* simple_task(0) .. simple_task(999).
ExpectedCall(k) ==
    IF k = 1 THEN <<"run_simulation">>
    ELSE IF k = 2 THEN <<"intensive_computation", 200>>
    ELSE IF k <= 52 THEN <<"moderate_work", (k - 3) * 10, 100>>
    ELSE <<"simple_task", k - 53>>

\* C6: run_simulation calls intensive_computation(200) once, then
\* moderate_work 50 times with base 0, 10, .., 490 and 100 repetitions, then
\* simple_task 1000 times with id 0 .. 999, in this order and nothing else.
C6_CallSequence ==
    /\ Len(calls) <= 1052
    /\ \A k \in DOMAIN calls : calls[k] = ExpectedCall(k)
    /\ AfterRunSimulation => Len(calls) = 1052

C6_Witness ==
    /\ pc = "exited"
    /\ Len(calls) = TotalCalls
    /\ calls[TotalCalls] = <<"simple_task", SimpleTasks - 1>>

\* C7 as stated: the first line written is a start-of-simulation banner,
\* which comes before the banner that starts the intensive tier.
C7_StartBannerFirst ==
    Len(out) >= 1 => out[1] # IntensiveStart

\* C7, amended: the first line written is the banner that starts the
\* intensive tier; no line precedes it.
C7_IntensiveStartFirst ==
    /\ Len(out) >= 1 => out[1] = IntensiveStart
    /\ Len(out) = 0 => pc \in {"pm_start_time", "pm_call_run", "rs_intensive_start"}

C7_Witness ==
    /\ pc = "rs_call_intensive"
    /\ out = <<IntensiveStart>>

\* C8: the output is the two banners of each tier, in the order intensive,
\* moderate, simple, then the elapsed-time line: seven lines when main has
\* returned and at any earlier time a prefix of them, so that no call of
\* moderate_work or simple_task writes a line; the second line carries the
\* value intensive_computation returned; the elapsed-time line is written
\* when all calls have been made.
ProfLineHeads ==
    <<IntensiveStart[1], IntensiveFinish(0)[1], ModerateStart[1], ModerateFinish[1],
      SimpleStart[1], SimpleFinish[1], TotalTime(0)[1]>>

C8_OnlyTierBanners ==
    /\ Len(out) <= 7
    /\ \A k \in DOMAIN out : out[k][1] = ProfLineHeads[k]
    /\ Len(out) >= 2 => out[2] = IntensiveFinish(ic_ret)
    /\ Len(out) >= 4 => Len(calls) >= 2 + ModerateBatches
    /\ Len(out) >= 6 => Len(calls) = TotalCalls
    /\ Len(out) = 7 => out[7] = TotalTime(end_time - start_time)
    /\ pc = "exited" => Len(out) = 7

C8_Witness ==
    /\ pc = "exited"
    /\ Len(out) = 7
    /\ Len(calls) = TotalCalls
    /\ out[2][2] > 0

\* C9: intensive_computation(0) returns 0; two calls with one n return one
\* value; the call sleeps 50 * n ms when n < 10 and not at all otherwise
\* (n = 200 included); the sleep statement changes nothing but the
\* position in the function.
ExpectedSleeps(n, k) ==
    IF n < 10 THEN [c \in 1..k |-> 50 * n] ELSE <<>>

C9_State ==
    /\ pc = "h_call2" => slept = ExpectedSleeps(h_n, 1)
    /\ pc = "h_done" =>
          /\ ret1 = ret2
          /\ h_n <= 0 => ret1 = 0
          /\ slept = ExpectedSleeps(h_n, 2)

C9_SleepFrame ==
    pc = "ic_sleep" =>
       UNCHANGED <<commonVars, memVars, mainVars, harnessVars, mwVars,
                   ret_pc, ic_n, ic_i, ic_sum, ic_ret>>

C9_PureFunctionOfN == []C9_State /\ [][C9_SleepFrame]_vars

C9_Witness ==
    /\ pc = "h_done"
    /\ h_n \in 1..9
    /\ ret1 > 0 /\ ret1 = ret2
    /\ slept = <<50 * h_n, 50 * h_n>>

\* C10: moderate_work(base, 0) returns 0.0 for every base, negative ones
\* included: no term is added; for r repetitions exactly r sine-cosine terms
\* and 100 * r logarithm terms are added.
TermsOf(tag, total) == {k \in DOMAIN total : total[k][1] = tag}

C10_TermCounts ==
    pc = "mw_done" =>
       /\ mw_reps = 0 => mw_ret = Zero
       /\ Cardinality(TermsOf("sin*cos", mw_ret)) = mw_reps
       /\ Cardinality(TermsOf("log", mw_ret)) = 100 * mw_reps
       /\ Len(mw_ret) = 101 * mw_reps

C10_Witness ==
    /\ pc = "mw_done"
    /\ mw_reps = 0
    /\ mw_base < 0
    /\ mw_ret = Zero

=============================================================================
